---- MODULE Spec2Model ----
(***************************************************************************)
(* Model of resources/notebooks/microdraw/microdraw.py: the decoding of    *)
(* MicroDraw region records into point loops, their stacking into a 3D     *)
(* vertex/edge list (dataset_as_volume) and their rasterization into a     *)
(* voxel grid (dataset_to_nifti).                                          *)
(*                                                                         *)
(* Coordinates are floats in the program.  Here a coordinate is an integer *)
(* number of half pixels (3 stands for 1.5), so that np.floor and np.ceil  *)
(* are not the identity.  Voxel indices are whole pixels.                  *)
(***************************************************************************)
EXTENDS Integers, Sequences, FiniteSets

VARIABLES
  dataset,      \* the Dataset argument: [numSlices, slices]
  fn,           \* the function the caller is running / ran last
  region_name,  \* dataset_to_nifti's region_name argument (None = no filter)
  pc,           \* position in the running call
  slce,         \* loop variable of "for slce in range(numSlices)"
  regions,      \* the list returned by get_regions_from_dataset_slice
  k,            \* 1-based position in "for ... in regions"
  verts,        \* dataset_as_volume: verts
  eds,          \* dataset_as_volume: eds
  neds,         \* dataset_as_volume: neds
  vmin,         \* dataset_to_nifti: vmin (x, y), whole pixels
  size,         \* dataset_to_nifti: img.shape
  img,          \* dataset_to_nifti: img, a function on the cells of size
  result,       \* what the last call returned or raised
  out           \* the grids returned so far, by region_name

vars == <<dataset, fn, region_name, pc, slce, regions, k, verts, eds, neds,
          vmin, size, img, result, out>>

None == "None"

\* ---------------------------------------------------------------- bounds
MaxSlices == 2     \* slices of a dataset
MaxRecords == 2    \* region records of a dataset, over all its slices
MaxSliceLen == 2   \* region records of the slice handed to the extractor alone

\* ------------------------------------------------------- region records
\* A segment of a paper.js path as the JSON holds it: [x, y] for a line
\* point, [[x, y], [inx, iny], [outx, outy]] for a curve point.
Line(x, y) == [kind |-> "line", v |-> <<x, y>>]
Curve(x, y) == [kind |-> "curve", v |-> <<<<x, y>>, <<1, 0>>, <<0, 1>>>>]

\* Point loops used by the inputs (half pixels).
LoopA == <<<<0, 0>>, <<8, 0>>, <<8, 8>>, <<0, 8>>>>
LoopB == <<<<3, 1>>, <<7, 1>>, <<7, 7>>, <<3, 7>>>>
LoopC == <<<<0, 0>>, <<2, 0>>, <<2, 2>>>>
LoopD == <<<<4, 2>>>>

LineSegs(loop) == [i \in 1..Len(loop) |-> Line(loop[i][1], loop[i][2])]
CurveSegs(loop) == [i \in 1..Len(loop) |-> Curve(loop[i][1], loop[i][2])]

\* One element of a slice's annotation list.
PathRecord(name, segs) ==
  [hasAnnotation |-> TRUE, hasPath |-> TRUE, name |-> name,
   path_type |-> "Path", segments |-> segs, children |-> <<>>]
CompoundRecord(name, children) ==
  [hasAnnotation |-> TRUE, hasPath |-> TRUE, name |-> name,
   path_type |-> "CompoundPath", segments |-> <<>>, children |-> children]
Child(segs) == [hasSegments |-> TRUE, segments |-> segs]
ChildNoSegments == [hasSegments |-> FALSE, segments |-> <<>>]
NoAnnotation ==
  [hasAnnotation |-> FALSE, hasPath |-> FALSE, name |-> "A",
   path_type |-> "Path", segments |-> <<>>, children |-> <<>>]
NoPath ==
  [hasAnnotation |-> TRUE, hasPath |-> FALSE, name |-> "A",
   path_type |-> "Path", segments |-> <<>>, children |-> <<>>]

\* ------------------------------------------------ get_points_from_segment
get_points_from_segment(seg) ==
  [i \in 1..Len(seg) |->
     IF seg[i].kind = "curve"
       THEN <<seg[i].v[1][1], seg[i].v[1][2]>>
       ELSE <<seg[i].v[1], seg[i].v[2]>>]

\* -------------------------------------------- get_regions_from_dataset_slice
\* Mutant: the test "'segments' in child[1]" is dropped, every child appends.
ChildRegions_NoSkip(name, children) ==
  [i \in 1..Len(children) |->
     [name |-> name, points |-> get_points_from_segment(children[i].segments)]]

\* The Regions of one CompoundPath: one per child that has 'segments'.
RECURSIVE ChildRegions(_, _)
ChildRegions(name, children) ==
  IF children = <<>> THEN <<>>
  ELSE LET child == Head(children)
           rest == ChildRegions(name, Tail(children))
       IN IF child.hasSegments
            THEN <<[name |-> name,
                    points |-> get_points_from_segment(child.segments)]>>
                 \o rest
            ELSE rest

\* The body of "for region in dataset" (lines 78-91): the Regions one record
\* appends, or the exception a missing key raises.
DecodeRecord(region) ==
  IF ~region.hasAnnotation \/ ~region.hasPath
    THEN [raised |-> "KeyError", regions |-> <<>>]
  ELSE IF region.path_type = "Path"
    THEN [raised |-> "none",
          regions |-> <<[name |-> region.name,
                         points |-> get_points_from_segment(region.segments)]>>]
  ELSE IF region.path_type = "CompoundPath"
    THEN [raised |-> "none",
          regions |-> ChildRegions(region.name, region.children)]
  ELSE [raised |-> "none", regions |-> <<>>]

\* The outcome of the call: the list, or the exception that left it.
RECURSIVE ExtractFrom(_, _)
ExtractFrom(slice, acc) ==
  IF slice = <<>> THEN [raised |-> "none", regions |-> acc]
  ELSE LET got == DecodeRecord(Head(slice)) IN
    IF got.raised # "none"
      THEN [raised |-> got.raised, regions |-> <<>>]
      ELSE ExtractFrom(Tail(slice), acc \o got.regions)

get_regions_from_dataset_slice(slice) == ExtractFrom(slice, <<>>)

\* ------------------------------------------------------------ the inputs
RecA == PathRecord("A", LineSegs(LoopA))
RecB == PathRecord("B", CurveSegs(LoopB))
RecC == PathRecord("A", LineSegs(LoopC))
RecD == CompoundRecord("B", <<Child(LineSegs(LoopD)), ChildNoSegments, Child(<<>>)>>)
Pool == {RecA, RecB, RecC, RecD}

SeqsUpTo(S, n) == UNION {[1..m -> S] : m \in 0..n}

\* The slice lists of n slices that hold at most budget records in all.
RECURSIVE SliceLists(_, _)
SliceLists(n, budget) ==
  IF n = 0 THEN {<<>>}
  ELSE UNION {{<<s>> \o rest : rest \in SliceLists(n - 1, budget - Len(s))} :
              s \in SeqsUpTo(Pool, budget)}

\* download_all_regions_from_dataset: one entry of slices per slice.
Datasets ==
  UNION {{[numSlices |-> n, slices |-> ss] : ss \in SliceLists(n, MaxRecords)} :
         n \in 0..MaxSlices}

Names == {"A", "B"}
Filters == Names \cup {None}

\* ------------------------------------------------------------- skimage
\* skimage.draw is a library the program calls.  What it answers for a point
\* loop is given here for the loops of the inputs, in whole pixels and before
\* clipping: the cells polygon() fills, the cells polygon_perimeter() draws,
\* and the call that raises, if one does.
Box(x0, x1, y0, y1) == {<<x, y>> : x \in x0..x1, y \in y0..y1}
Ring(x0, x1, y0, y1) ==
  {c \in Box(x0, x1, y0, y1) : c[1] \in {x0, x1} \/ c[2] \in {y0, y1}}

Interior(points) ==
  CASE points = LoopA -> Box(0, 4, 0, 4)
    [] points = LoopB -> Box(2, 3, 1, 3)
    [] points = LoopC -> {<<0, 0>>, <<1, 0>>, <<1, 1>>}
    [] points = LoopD -> {<<2, 1>>}
    [] OTHER -> {}

Outline(points) ==
  CASE points = LoopA -> Ring(0, 4, 0, 4)
    [] points = LoopB -> Ring(2, 4, 0, 4)
    [] points = LoopD -> {<<2, 1>>}
    [] OTHER -> {}

\* LoopC stands for a region polygon() fills and polygon_perimeter() raises on:
\* polygon() clips to the shape before it lists cells, polygon_perimeter()
\* lists every cell of every line before it clips, and the bare except also
\* takes a MemoryError or a KeyboardInterrupt of the second pass.
LibRaises(points) ==
  CASE points = LoopC -> "perimeter"
    [] OTHER -> "none"

\* ------------------------------------------------------ dataset_as_volume
\* verts.extend([(x, y, slce) for x, y in region])
RegionVerts(points, s) ==
  [i \in 1..Len(points) |-> <<points[i][1], points[i][2], s>>]

\* Mutant: the edge closing the loop is left out.
RegionEdges_Open(base, n) ==
  [j \in 1..(n - 1) |-> <<base + (j - 1), base + j>>]

\* Mutant: the modulo is taken of the whole sum, (neds+i+1)%len(region).
RegionEdges_Wrap(base, n) ==
  [j \in 1..n |-> <<base + (j - 1), (base + j) % n>>]

\* eds.extend([(neds+i, neds+(i+1)%len(region)) for i in range(len(region))])
RegionEdges(base, n) ==
  [j \in 1..n |-> <<base + (j - 1), base + (j % n)>>]

\* ------------------------------------------------------- dataset_to_nifti
Floor(h) == h \div 2
Ceil(h) == -((-h) \div 2)

MinOf(S) == CHOOSE m \in S : \A x \in S : m <= x
MaxOf(S) == CHOOSE m \in S : \A x \in S : x <= m
Column(vs, c) == {vs[i][c] : i \in 1..Len(vs)}

\* vmin = np.floor(np.min(verts, axis=0)), x and y
BoxMin(vs) == <<Floor(MinOf(Column(vs, 1))), Floor(MinOf(Column(vs, 2)))>>
\* vmax = np.ceil(np.max(verts, axis=0)), x and y
BoxMax(vs) == <<Ceil(MaxOf(Column(vs, 1))), Ceil(MaxOf(Column(vs, 2)))>>
\* size = vmax - vmin; size[2] = numSlices
ShapeOf(vs, n) ==
  <<BoxMax(vs)[1] - BoxMin(vs)[1], BoxMax(vs)[2] - BoxMin(vs)[2], n>>

Plane(shape) == {<<x, y>> : x \in 0..(shape[1] - 1), y \in 0..(shape[2] - 1)}
Cells(shape) ==
  {<<x, y, z>> : x \in 0..(shape[1] - 1), y \in 0..(shape[2] - 1),
                 z \in 0..(shape[3] - 1)}
\* np.zeros(size, 'uint8')
Zeros(shape) == [c \in Cells(shape) |-> 0]

\* polygon(region[:, 0]-vmin[0], region[:, 1]-vmin[1], img.shape)
polygon(points, lo, shape) ==
  {<<c[1] - lo[1], c[2] - lo[2]>> : c \in Interior(points)} \cap Plane(shape)
\* polygon_perimeter(region[:, 0]-vmin[0], region[:, 1]-vmin[1], img.shape)
polygon_perimeter(points, lo, shape) ==
  {<<c[1] - lo[1], c[2] - lo[2]>> : c \in Outline(points)} \cap Plane(shape)

\* The statement of the try block that raises for this region, if any:
\* region[:, 0] on an array without points is an IndexError.
Raises(points) == IF points = <<>> THEN "polygon" ELSE LibRaises(points)

\* img[rows, cols, slce] = value
Write(grid, cells, s, value) ==
  [c \in DOMAIN grid |->
     IF c[3] = s /\ <<c[1], c[2]>> \in cells THEN value ELSE grid[c]]

\* Mutant: the test is "name == region_name" alone.
Selected_Strict(filter, name) == name = filter

\* Mutant: the filter is not looked at.
Selected_Any(filter, name) == TRUE

\* region_name is None or (region_name is not None and name == region_name)
Selected(filter, name) == filter = None \/ (filter # None /\ name = filter)

\* Mutant: the two passes are swapped, the perimeter is drawn first.
TryDraw_PerimeterFirst(grid, points, s, lo, shape) ==
  IF Raises(points) = "polygon" THEN grid
  ELSE LET outlined == Write(grid, polygon_perimeter(points, lo, shape), s, 0) IN
    IF Raises(points) = "perimeter" THEN outlined
    ELSE Write(outlined, polygon(points, lo, shape), s, 255)

\* The try block (lines 155-158): img as the block leaves it, by its end or
\* by the statement that raises.
TryDraw(grid, points, s, lo, shape) ==
  IF Raises(points) = "polygon" THEN grid
  ELSE LET filled == Write(grid, polygon(points, lo, shape), s, 255) IN
    IF Raises(points) = "perimeter" THEN filled
    ELSE Write(filled, polygon_perimeter(points, lo, shape), s, 0)

\* Mutant: the handler lets the exception go on to the caller.
Except_Reraise(raised) == "raise"

\* "except: continue" (lines 159-160): a bare except catches whatever the
\* try block raised, and the loop goes on.
Except(raised) == "continue"

\* The body of "for name, region in regions": the grid after it, and whether
\* an exception leaves the call.
DrawRegion(grid, region, s, lo, shape, filter) ==
  IF Selected(filter, region.name)
    THEN [img |-> TryDraw(grid, region.points, s, lo, shape),
          leaves |-> Raises(region.points) # "none"
                     /\ Except(Raises(region.points)) # "continue"]
    ELSE [img |-> grid, leaves |-> FALSE]

\* ---------------------------------------------------------------- calls
NoGrid == <<>>
NotReturned == [returned |-> FALSE, img |-> NoGrid]

Init ==
  /\ dataset \in Datasets
  /\ fn = "none"
  /\ region_name = None
  /\ pc = "idle"
  /\ slce = 0
  /\ regions = <<>>
  /\ k = 1
  /\ verts = <<>>
  /\ eds = <<>>
  /\ neds = 0
  /\ vmin = <<0, 0>>
  /\ size = <<0, 0, 0>>
  /\ img = NoGrid
  /\ result = "none"
  /\ out = [f \in Filters |-> NotReturned]

\* A call of dataset_as_volume(dataset) or dataset_to_nifti(dataset, region_name=f):
\* both start with the assembler's lines 117-119.
Call(name, f) ==
  /\ pc = "idle"
  /\ fn' = name
  /\ region_name' = f
  /\ pc' = "vol_slice"
  /\ slce' = 0
  /\ regions' = <<>>
  /\ k' = 1
  /\ verts' = <<>>
  /\ eds' = <<>>
  /\ neds' = 0
  /\ vmin' = <<0, 0>>
  /\ size' = <<0, 0, 0>>
  /\ img' = NoGrid
  /\ result' = "none"
  /\ UNCHANGED <<dataset, out>>

CallVolume == Call("dataset_as_volume", None)
CallNifti == \E f \in Filters : Call("dataset_to_nifti", f)

\* Line 121: the regions of slice slce; an exception leaves the call.
VolSlice ==
  /\ pc = "vol_slice"
  /\ slce < dataset.numSlices
  /\ LET got == get_regions_from_dataset_slice(dataset.slices[slce + 1]) IN
       IF got.raised # "none"
         THEN /\ pc' = "idle"
              /\ result' = got.raised
              /\ UNCHANGED <<slce, regions, k>>
         ELSE /\ regions' = got.regions
              /\ k' = 1
              /\ IF got.regions = <<>>
                   THEN pc' = "vol_slice" /\ slce' = slce + 1
                   ELSE pc' = "vol_region" /\ slce' = slce
              /\ result' = result
  /\ UNCHANGED <<dataset, fn, region_name, verts, eds, neds, vmin, size, img, out>>

\* Lines 123-125 for regions[k].
VolRegion ==
  /\ pc = "vol_region"
  /\ k <= Len(regions)
  /\ LET region == regions[k].points
         eds2 == eds \o RegionEdges(neds, Len(region))
     IN /\ verts' = verts \o RegionVerts(region, slce)
        /\ eds' = eds2
        /\ neds' = Len(eds2)
  /\ IF k = Len(regions)
       THEN pc' = "vol_slice" /\ slce' = slce + 1
       ELSE pc' = "vol_region" /\ slce' = slce
  /\ k' = k + 1
  /\ UNCHANGED <<dataset, fn, region_name, regions, vmin, size, img, result, out>>

\* Line 126, when the caller asked for the volume.
VolReturn ==
  /\ pc = "vol_slice"
  /\ slce = dataset.numSlices
  /\ fn = "dataset_as_volume"
  /\ pc' = "idle"
  /\ result' = "mesh"
  /\ UNCHANGED <<dataset, fn, region_name, slce, regions, k, verts, eds, neds,
                 vmin, size, img, out>>

\* Lines 143-149: the bounding box of verts and the zero grid.  np.min of an
\* empty list raises ValueError.
NiftiAlloc ==
  /\ pc = "vol_slice"
  /\ slce = dataset.numSlices
  /\ fn = "dataset_to_nifti"
  /\ IF verts = <<>>
       THEN /\ pc' = "idle"
            /\ result' = "ValueError"
            /\ UNCHANGED <<slce, vmin, size, img>>
       ELSE /\ vmin' = BoxMin(verts)
            /\ size' = ShapeOf(verts, dataset.numSlices)
            /\ img' = Zeros(ShapeOf(verts, dataset.numSlices))
            /\ pc' = "nii_slice"
            /\ slce' = 0
            /\ result' = result
  /\ UNCHANGED <<dataset, fn, region_name, regions, k, verts, eds, neds, out>>

\* Line 151.
NiftiSlice ==
  /\ pc = "nii_slice"
  /\ slce < dataset.numSlices
  /\ LET got == get_regions_from_dataset_slice(dataset.slices[slce + 1]) IN
       IF got.raised # "none"
         THEN /\ pc' = "idle"
              /\ result' = got.raised
              /\ UNCHANGED <<slce, regions, k>>
         ELSE /\ regions' = got.regions
              /\ k' = 1
              /\ IF got.regions = <<>>
                   THEN pc' = "nii_slice" /\ slce' = slce + 1
                   ELSE pc' = "nii_region" /\ slce' = slce
              /\ result' = result
  /\ UNCHANGED <<dataset, fn, region_name, verts, eds, neds, vmin, size, img, out>>

\* Lines 153-160 for regions[k].
NiftiRegion ==
  /\ pc = "nii_region"
  /\ k <= Len(regions)
  /\ LET body == DrawRegion(img, regions[k], slce, vmin, size, region_name) IN
       /\ img' = body.img
       /\ IF body.leaves
            THEN /\ pc' = "idle"
                 /\ result' = "Exception"
                 /\ UNCHANGED <<slce, k>>
            ELSE /\ IF k = Len(regions)
                      THEN pc' = "nii_slice" /\ slce' = slce + 1
                      ELSE pc' = "nii_region" /\ slce' = slce
                 /\ k' = k + 1
                 /\ result' = result
  /\ UNCHANGED <<dataset, fn, region_name, regions, verts, eds, neds, vmin,
                 size, out>>

\* Lines 161-167: the grid is wrapped and returned.
NiftiReturn ==
  /\ pc = "nii_slice"
  /\ slce = dataset.numSlices
  /\ pc' = "idle"
  /\ result' = "nii"
  /\ out' = [out EXCEPT ![region_name] = [returned |-> TRUE, img |-> img]]
  /\ UNCHANGED <<dataset, fn, region_name, slce, regions, k, verts, eds, neds,
                 vmin, size, img>>

Next ==
  \/ CallVolume
  \/ CallNifti
  \/ VolSlice
  \/ VolRegion
  \/ VolReturn
  \/ NiftiAlloc
  \/ NiftiSlice
  \/ NiftiRegion
  \/ NiftiReturn

Spec == Init /\ [][Next]_vars

\* ------------------------------------------- the extractor called alone
RecE == CompoundRecord("A", <<ChildNoSegments, Child(CurveSegs(LoopC)),
                              Child(LineSegs(LoopD)), ChildNoSegments>>)
RecEmpty == PathRecord("B", <<>>)
ExtractPool == {RecA, RecB, RecD, RecE, RecEmpty, NoAnnotation, NoPath}

InitExtract ==
  /\ dataset \in {[numSlices |-> 1, slices |-> <<s>>] :
                  s \in SeqsUpTo(ExtractPool, MaxSliceLen)}
  /\ fn = "none"
  /\ region_name = None
  /\ pc = "idle"
  /\ slce = 0
  /\ regions = <<>>
  /\ k = 1
  /\ verts = <<>>
  /\ eds = <<>>
  /\ neds = 0
  /\ vmin = <<0, 0>>
  /\ size = <<0, 0, 0>>
  /\ img = NoGrid
  /\ result = "none"
  /\ out = [f \in Filters |-> NotReturned]

\* get_regions_from_dataset_slice(dataset["slices"][0]), line 76.
ExtractCall ==
  /\ pc = "idle"
  /\ fn' = "get_regions_from_dataset_slice"
  /\ pc' = "ext_region"
  /\ regions' = <<>>
  /\ k' = 1
  /\ result' = "none"
  /\ UNCHANGED <<dataset, region_name, slce, verts, eds, neds, vmin, size, img, out>>

\* Lines 78-91 for the k-th record of the slice.
ExtractRegion ==
  /\ pc = "ext_region"
  /\ k <= Len(dataset.slices[1])
  /\ LET got == DecodeRecord(dataset.slices[1][k]) IN
       IF got.raised # "none"
         THEN /\ pc' = "idle"
              /\ result' = got.raised
              /\ UNCHANGED <<regions, k>>
         ELSE /\ regions' = regions \o got.regions
              /\ k' = k + 1
              /\ UNCHANGED <<pc, result>>
  /\ UNCHANGED <<dataset, fn, region_name, slce, verts, eds, neds, vmin, size, img, out>>

\* Line 92.
ExtractReturn ==
  /\ pc = "ext_region"
  /\ k > Len(dataset.slices[1])
  /\ pc' = "idle"
  /\ result' = "regions"
  /\ UNCHANGED <<dataset, fn, region_name, slce, regions, k, verts, eds, neds,
                 vmin, size, img, out>>

NextExtract ==
  \/ ExtractCall
  \/ ExtractRegion
  \/ ExtractReturn

SpecExtract == InitExtract /\ [][NextExtract]_vars

\* ================================================================ claims

\* C1: the edge list of the Volume Assembler always has as many entries as
\* the vertex list, after every region appended and when it returns.
C1_EdgesMatchVertices == Len(eds) = Len(verts)

C1_Witness ==
  /\ result = "mesh"
  /\ dataset.numSlices = 2
  /\ Len(verts) >= 5
  /\ Len(eds) = Len(verts)

\* C2: a region of n points appended when the vertex list holds base vertices
\* adds exactly the edges (base+i, base+((i+1) mod n)), i in [0, n); both ends
\* of each are vertices of that region, in the slice being assembled.
C2_RegionCycle ==
  [][pc = "vol_region" =>
       LET n == Len(regions[k].points)
           base == Len(verts)
       IN /\ Len(verts') = base + n
          /\ Len(eds') = Len(eds) + n
          /\ SubSeq(eds', 1, Len(eds)) = eds
          /\ \A i \in 0..(n - 1) :
               LET e == eds'[Len(eds) + i + 1] IN
                 /\ e = <<base + i, base + ((i + 1) % n)>>
                 /\ \A j \in 1..2 :
                      /\ e[j] \in base..(base + n - 1)
                      /\ verts'[e[j] + 1][3] = slce
                      /\ <<verts'[e[j] + 1][1], verts'[e[j] + 1][2]>>
                           \in {regions[k].points[m] : m \in 1..n}]_vars

C2_Witness ==
  /\ pc = "vol_slice"
  /\ Len(eds) >= 5
  /\ eds[Len(eds)] = <<Len(verts) - 1, Len(verts) - 4>>

\* C3: an empty dataset is converted without error: the assembler returns an
\* empty mesh and the rasterizer a volume of Z-extent 0.
C3_EmptyDatasetConverts ==
  (dataset.numSlices = 0 /\ pc = "idle" /\ result # "none") =>
     /\ fn = "dataset_as_volume" =>
          (result = "mesh" /\ verts = <<>> /\ eds = <<>>)
     /\ fn = "dataset_to_nifti" => (result = "nii" /\ size[3] = 0)

\* The region names present in the dataset.
NamesIn(d) ==
  UNION {{d.slices[s][i].name : i \in 1..Len(d.slices[s])} : s \in 1..d.numSlices}

\* The cell-wise union of grids on the cells dom.
UnionOf(grids, dom) ==
  [c \in dom |-> IF \E g \in grids : g[c] = 255 THEN 255 ELSE 0]

AllReturned == \A f \in NamesIn(dataset) \cup {None} : out[f].returned

\* The pixels a region writes in its slice, whatever it writes there.
Writes(points) ==
  IF Raises(points) = "polygon" THEN {}
  ELSE IF Raises(points) = "perimeter" THEN Interior(points)
  ELSE Interior(points) \cup Outline(points)

\* No pixel of a slice is written by regions of two different names.
NoCrossNameOverlap ==
  \A s \in 1..dataset.numSlices :
    LET rs == get_regions_from_dataset_slice(dataset.slices[s]).regions IN
      \A i, j \in 1..Len(rs) :
        rs[i].name # rs[j].name =>
          Writes(rs[i].points) \cap Writes(rs[j].points) = {}

\* C4 as stated: the grid made without a filter is the cell-wise union of the
\* grids made with each region name of the dataset as the filter, overlapping
\* regions of different names included.
C4_UnionOfFilters ==
  AllReturned =>
    out[None].img =
      UnionOf({out[n].img : n \in NamesIn(dataset)}, DOMAIN out[None].img)

\* C4 amended: the same, for the datasets in which no pixel of a slice is
\* written by regions of two different names.
C4_UnionOfFiltersDisjoint ==
  (AllReturned /\ NoCrossNameOverlap) =>
    out[None].img =
      UnionOf({out[n].img : n \in NamesIn(dataset)}, DOMAIN out[None].img)

C4_Witness ==
  /\ AllReturned
  /\ NoCrossNameOverlap
  /\ \E s \in 1..dataset.numSlices :
       {dataset.slices[s][i].name : i \in 1..Len(dataset.slices[s])} = Names
  /\ \A n \in Names : \E c \in DOMAIN out[n].img : out[n].img[c] = 255

\* C5: with region_name = X the regions named otherwise write no cell.
C5_OtherNamesWriteNothing ==
  [][(pc = "nii_region" /\ region_name # None
        /\ regions[k].name # region_name) => img' = img]_vars

C5_Witness ==
  /\ pc \in {"nii_region", "nii_slice"}
  /\ region_name # None
  /\ k > 1
  /\ regions # <<>>
  /\ regions[k - 1].name # region_name
  /\ Raises(regions[k - 1].points) = "none"
  /\ polygon(regions[k - 1].points, vmin, size) # {}
  /\ \E c \in DOMAIN img : img[c] = 255

\* The region the rasterizer is about to handle passes the filter and raises.
AtRaisingRegion ==
  /\ pc = "nii_region"
  /\ Selected(region_name, regions[k].name)
  /\ Raises(regions[k].points) # "none"

\* C6: a region whose rasterization raises does not end the conversion: the
\* loop goes on with the next region of the slice, or with the next slice,
\* and the call, once in the loop, returns a volume.
C6_RaisingRegionContinues ==
  [][/\ AtRaisingRegion =>
          /\ result' = "none"
          /\ k' = k + 1
          /\ IF k < Len(regions)
               THEN pc' = "nii_region" /\ slce' = slce
               ELSE pc' = "nii_slice" /\ slce' = slce + 1
     /\ (pc \in {"nii_region", "nii_slice"} /\ pc' = "idle") =>
          (result' = "nii" /\ slce = dataset.numSlices)]_vars

C6_Witness ==
  /\ pc = "idle"
  /\ result = "nii"
  /\ \E s \in 1..dataset.numSlices :
       LET rs == get_regions_from_dataset_slice(dataset.slices[s]).regions IN
         \E i, j \in 1..Len(rs) :
           /\ i < j
           /\ Selected(region_name, rs[i].name)
           /\ Raises(rs[i].points) # "none"
           /\ Selected(region_name, rs[j].name)
           /\ Raises(rs[j].points) = "none"
           /\ \E c \in polygon(rs[j].points, vmin, size)
                       \ polygon_perimeter(rs[j].points, vmin, size) :
                img[<<c[1], c[2], s - 1>>] = 255

\* C7: a region whose rasterization raises, in the fill pass or in the
\* perimeter pass, leaves the grid as it was.
C7_RaisingRegionWritesNothing ==
  [][AtRaisingRegion => img' = img]_vars

\* A record of the kinds the spec calls malformed.
Malformed(record) ==
  \/ ~record.hasAnnotation
  \/ ~record.hasPath
  \/ (record.path_type = "Path" /\ record.segments = <<>>)
  \/ (record.path_type = "CompoundPath"
        /\ \E i \in 1..Len(record.children) :
             record.children[i].hasSegments /\ record.children[i].segments = <<>>)

RECURSIVE WellFormedRegions(_)
WellFormedRegions(slice) ==
  IF slice = <<>> THEN <<>>
  ELSE (IF Malformed(Head(slice)) THEN <<>> ELSE DecodeRecord(Head(slice)).regions)
       \o WellFormedRegions(Tail(slice))

\* C8: a malformed record does not end the extraction of its siblings: the
\* extractor returns every well-formed region of the slice, in input order,
\* and no region without points.
C8_MalformedRecordSkipped ==
  (fn = "get_regions_from_dataset_slice" /\ pc = "idle" /\ result # "none") =>
     /\ result = "regions"
     /\ regions = WellFormedRegions(dataset.slices[1])
     /\ \A i \in 1..Len(regions) : Len(regions[i].points) >= 1

\* The anchor point of a segment: [x, y], or the first pair of a curve.
Anchor(segment) == IF segment.kind = "curve" THEN segment.v[1] ELSE segment.v

\* C9: a CompoundPath record with k children that have segments and m that
\* have none yields exactly k Regions, named as the record, in the order of
\* those k children; the other children raise nothing.
C9_CompoundPathRegions ==
  [][(pc = "ext_region" /\ k <= Len(dataset.slices[1])
        /\ dataset.slices[1][k].hasAnnotation /\ dataset.slices[1][k].hasPath
        /\ dataset.slices[1][k].path_type = "CompoundPath") =>
       LET record == dataset.slices[1][k]
           bearing == SelectSeq(record.children, LAMBDA c : c.hasSegments)
       IN /\ result' = "none"
          /\ pc' = "ext_region"
          /\ Len(regions') = Len(regions) + Len(bearing)
          /\ SubSeq(regions', 1, Len(regions)) = regions
          /\ \A i \in 1..Len(bearing) :
               LET r == regions'[Len(regions) + i] IN
                 /\ r.name = record.name
                 /\ Len(r.points) = Len(bearing[i].segments)
                 /\ \A m \in 1..Len(r.points) :
                      r.points[m] = Anchor(bearing[i].segments[m])]_vars

C9_Witness ==
  /\ pc = "idle"
  /\ result = "regions"
  /\ Len(dataset.slices[1]) = 2
  /\ dataset.slices[1][2].path_type = "CompoundPath"
  /\ Len(dataset.slices[1][2].children) = 4
  /\ Len(regions) = 3
  /\ regions[2].name = dataset.slices[1][2].name
  /\ regions[3].name = dataset.slices[1][2].name

\* C10: a region of slice s that passes the filter and raises nothing leaves
\* 0 in each of its perimeter cells and 255 in each of its fill cells that is
\* no perimeter cell, in plane s, and changes no cell of another plane.
C10_FillThenPerimeter ==
  [][(pc = "nii_region" /\ Selected(region_name, regions[k].name)
        /\ Raises(regions[k].points) = "none") =>
       LET fill == polygon(regions[k].points, vmin, size)
           perimeter == polygon_perimeter(regions[k].points, vmin, size)
       IN /\ DOMAIN img' = DOMAIN img
          /\ \A c \in perimeter : img'[<<c[1], c[2], slce>>] = 0
          /\ \A c \in fill \ perimeter : img'[<<c[1], c[2], slce>>] = 255
          /\ \A c \in DOMAIN img : c[3] # slce => img'[c] = img[c]]_vars

C10_Witness ==
  /\ pc \in {"nii_region", "nii_slice"}
  /\ k > 1
  /\ regions # <<>>
  /\ Selected(region_name, regions[k - 1].name)
  /\ Raises(regions[k - 1].points) = "none"
  /\ LET s == IF pc = "nii_slice" THEN slce - 1 ELSE slce
         fill == polygon(regions[k - 1].points, vmin, size)
         perimeter == polygon_perimeter(regions[k - 1].points, vmin, size)
     IN /\ s = 1
        /\ fill \cap perimeter # {}
        /\ \E c \in fill \ perimeter : img[<<c[1], c[2], s>>] = 255
        /\ \E c \in perimeter : img[<<c[1], c[2], s>>] = 0
        /\ \E c \in DOMAIN img : c[3] = 0 /\ img[c] = 255

====
